---- MODULE Spec2Model ----
(***************************************************************************)
(* Model of the animated background video pipeline (src/src/video.rs) and  *)
(* of the host application's main loop (src/src/main.rs).                  *)
(*                                                                         *)
(* Two threads share one bounded crossbeam channel: the decode worker      *)
(* spawned by spawn_decode, and the main thread that owns the              *)
(* VideoBackground (the receiving end, `latest`, `opacity`).               *)
(*                                                                         *)
(* A frame is identified by the position (1-based) of the packet it was    *)
(* decoded from; decoding, rescaling and ASCII mapping are deterministic,  *)
(* so equal positions carry equal pixels.                                  *)
(***************************************************************************)
EXTENDS Integers, Sequences, FiniteSets

VARIABLES
    packets,        \* the container's packets, by stream index (fixed by the file)
    damaged,        \* the packets whose frame the decoder cannot decode (fixed by the file)
    record,         \* whether the histories `published` and `installed` are kept
    mpc,            \* main thread: "start", "draw", "input", "update", "done"
    mainResult,     \* what main returned: "none", "Ok", "Err"
    newResult,      \* what VideoBackground::new returned: "none", "Ok", "Err"
    rxAlive,        \* the Receiver exists and has not been dropped
    queue,          \* the bounded channel's content, oldest first
    latest,         \* VideoBackground.latest: None or a frame
    wpc,            \* worker thread position (see WorkerStates)
    wstop,          \* why the worker thread ended ("none" while it runs)
    finished_flag,  \* the AtomicBool handed to spawn_decode
    pos,            \* packets already yielded by ictx.packets() in this pass
    dec,            \* decoder: [buf: frames held, ready: how many receive_frame will give]
    ascii,          \* the AsciiFrame the worker is about to send (None when none)
    kept,           \* the session components in use that were built before the last seek
    published,      \* history: frames whose send succeeded, in order
    installed,      \* history: frames update() stored into latest, in order
    sendFailed,     \* history: a send has returned Err (receiver gone)
    swallowed,      \* history: phases ("s", "f") in which receive_frame gave a real error
    opacityArg,     \* Args.opacity: the f32 parsed from --opacity
    opacity,        \* VideoBackground.opacity: the f32 stored by new
    target,         \* [w, h]: the terminal size handed to new (target_w, target_h)
    area,           \* the Rect handed to render_background
    buf,            \* the Buffer handed to render_background: position -> [ch, fg]
    provider,       \* ChatInterface.provider
    ai_client,      \* ChatInterface.ai_client: the provider it talks to
    messages_per_provider,  \* provider -> its conversation (a missing entry is empty)
    input_buffer,   \* ChatInterface.input_buffer, a sequence of characters
    scroll_offset,  \* ChatInterface.scroll_offset
    is_streaming,   \* ChatInterface.is_streaming
    show_help,      \* ChatInterface.show_help
    responses,      \* the unbounded channel response_tx -> response_rx, oldest first
    tasks,          \* the tokio tasks spawned by send_message that have not sent yet
    requests,       \* history: the number of requests sent so far
    db              \* the database: None, or provider -> the rows saved for it

vars == <<packets, damaged, record, kept, mpc, mainResult, newResult, rxAlive, queue, latest, wpc, wstop,
          finished_flag, pos, dec, ascii, published, installed, sendFailed,
          swallowed, opacityArg, opacity, target, area, buf, provider, ai_client,
          messages_per_provider, input_buffer, scroll_offset, is_streaming, show_help,
          responses, tasks, requests, db>>

fileVars == <<packets, damaged, record>>
mainVars == <<mpc, mainResult, newResult>>
workerVars == <<wpc, wstop, finished_flag, pos, dec, ascii, kept>>
histVars == <<published, installed, sendFailed, swallowed>>
screenVars == <<opacityArg, target, area, buf>>
pipelineVars == <<fileVars, mainVars, rxAlive, queue, latest, workerVars, histVars,
                  screenVars, opacity>>
chatVars == <<provider, ai_client, messages_per_provider, input_buffer, scroll_offset,
              is_streaming, show_help, responses, tasks, requests, db>>

-----------------------------------------------------------------------------
(* Bounds of the model *)

\* most video frames in the container
MaxFrames == 3
\* most frames the decoder may hold back while packets still arrive
MaxDelay == 1
\* successful sends recorded (the worker loops forever)
MaxPublished == 9
\* most damaged video packets in the container
MaxDamaged == 1
\* largest width and height of the frames and areas tried (the named examples apart)
MaxDim == 3
\* largest x and y of an area's corner
MaxOrigin == 1
\* most messages the conversations may hold together
MaxMessages == 2
\* most characters typed into the input line
MaxInput == 1
\* most requests sent to the providers
MaxRequests == 1

(* Program constants *)

\* bounded::<AsciiFrame>(8)
QueueCap == 8
\* the video stream's index (v_idx); any other index is another stream
VideoIdx == 0
OtherIdx == 1

None == 0

-----------------------------------------------------------------------------
(* Helpers *)

Range(s) == {s[i] : i \in 1..Len(s)}

Last(s) == s[Len(s)]

\* the positions of the video packets: the frames one pass over the file decodes
VideoFrames(p) == {i \in 1..Len(p) : p[i] = VideoIdx}

NumFrames(p) == Cardinality(VideoFrames(p))

\* the files: 1..MaxFrames video packets, or two video packets with a packet of
\* another stream (audio) between them
Sources ==
    {[i \in 1..k |-> VideoIdx] : k \in 1..MaxFrames}
        \cup {<<VideoIdx, OtherIdx, VideoIdx>>}

\* the sets of packets of file p that may be damaged
Damages(p) == {d \in SUBSET VideoFrames(p) : Cardinality(d) <= MaxDamaged}

-----------------------------------------------------------------------------
(* The bounded channel: crossbeam_channel::bounded(8) *)

\* a channel that admits one message more than its capacity
SendHasRoomOffByOne(q) == Len(q) <= QueueCap

\* tx.send blocks while the channel is full and the receiver lives
SendHasRoom(q) == Len(q) < QueueCap

\* a receive that reports disconnection as soon as the sender is gone, even
\* with messages still queued
TryRecvOkUnlessDisconnected(q) == q # <<>> /\ wpc # "stopped"

\* rx.try_recv(): Ok exactly when a message is queued (also after the sender is gone)
TryRecvOk(q) == q # <<>>

-----------------------------------------------------------------------------
(* The decoder: ff::codec::decoder::Video, as spawn_decode drives it *)

\* a freshly built decoder holds nothing and has not been sent end-of-stream
NewDecoder == [buf |-> <<>>, ready |-> 0, eof |-> FALSE]

\* dec.send_packet: the frame joins the decoder's buffer; the codec may hold back
\* up to MaxDelay frames and hand out any number of the others
AfterSendPacket(d, f) ==
    LET n == Len(d.buf) + 1
    IN  {[buf |-> Append(d.buf, f), ready |-> r, eof |-> d.eof] :
            r \in {x \in 0..n : x + MaxDelay >= n /\ x >= d.ready}}

\* an end-of-stream signal that releases nothing of what the decoder holds back
AfterSendEofNoDrain(d) == [buf |-> d.buf, ready |-> d.ready, eof |-> TRUE]

\* dec.send_eof: everything still buffered becomes receivable
AfterSendEof(d) == [buf |-> d.buf, ready |-> Len(d.buf), eof |-> TRUE]

\* dec.receive_frame(&mut frame).is_ok()
ReceiveOk(d) == d.ready > 0

\* the frame receive_frame hands out, and the decoder afterwards
ReceivedFrame(d) == Head(d.buf)
AfterReceive(d) == [buf |-> Tail(d.buf), ready |-> d.ready - 1, eof |-> d.eof]

\* a seek that lands after the first packet
SeekTargetPastFirst == 0 + 1

\* ictx.seek(0, ..0): the position ictx.packets() restarts from
SeekTarget == 0

\* the decoder that was flushed, taken along across the seek
FlushedDecoder == dec

\* the decoder used after the seek
RebuiltDecoder == NewDecoder

\* what built the session at open: nothing in it has been through a seek
BuiltAtOpen == {}

\* lines 143-146 assign `dec` only: `ictx` (sought back) and `scaler` stay in use
KeptAcrossSeek == {"container", "rescaler"}

-----------------------------------------------------------------------------
(* f32 arithmetic, as far as luminance and the dimming need it.  A finite    *)
(* non-negative f32 is [m, e], the value m / 2^e with a 24-bit mantissa m in *)
(* [2^23, 2^24) (zero is [0, 0]); every operation rounds to nearest, ties to *)
(* even, as the hardware does.                                               *)

RECURSIVE Pow2(_)
Pow2(k) == IF k = 0 THEN 1 ELSE 2 * Pow2(k - 1)

RECURSIVE BitLen(_)
BitLen(n) == IF n = 0 THEN 0 ELSE 1 + BitLen(n \div 2)

Min(a, b) == IF a < b THEN a ELSE b

\* bits of an f32 mantissa, the hidden bit included
MantBits == 24

F32Zero == [m |-> 0, e |-> 0]

\* m / 2^e with the mantissa brought into [2^23, 2^24)
RECURSIVE F32Norm(_, _)
F32Norm(m, e) ==
    IF m = 0 THEN F32Zero
    ELSE IF m < Pow2(MantBits - 1) THEN F32Norm(2 * m, e + 1)
    ELSE [m |-> m, e |-> e]

\* q / 2^e where s bits (rem) were cut off below q, and `sticky` tells that
\* non-zero bits were lost below those: round to nearest, ties to even
F32Round(q, rem, s, sticky, e) ==
    LET half == IF s = 0 THEN 0 ELSE Pow2(s - 1)
        up   == s > 0 /\ (rem > half \/ (rem = half /\ (sticky \/ q % 2 = 1)))
        r    == IF up THEN q + 1 ELSE q
    IN  IF r = Pow2(MantBits) THEN [m |-> Pow2(MantBits - 1), e |-> e - 1]
        ELSE F32Norm(r, e)

\* (n as f32) * f for a byte n: the exact product, held in two 12-bit halves,
\* rounded once
F32MulU8(n, f) ==
    LET hi  == f.m \div 4096
        lo  == f.m % 4096
        top == n * hi + (n * lo) \div 4096
        low == (n * lo) % 4096
        s   == IF BitLen(top) > 12 THEN BitLen(top) - 12 ELSE 0
        q   == top * Pow2(12 - s) + low \div Pow2(s)
        rem == low % Pow2(s)
    IN  F32Round(q, rem, s, FALSE, f.e - s)

F32Less(a, b) ==
    IF a.m = 0 THEN b.m # 0
    ELSE IF b.m = 0 THEN FALSE
    ELSE a.e > b.e \/ (a.e = b.e /\ a.m < b.m)

\* a + b: the smaller operand is aligned with three guard bits and a sticky bit
F32Add(a, b) ==
    IF a.m = 0 THEN b
    ELSE IF b.m = 0 THEN a
    ELSE LET big     == IF F32Less(a, b) THEN b ELSE a
             small   == IF F32Less(a, b) THEN a ELSE b
             d       == small.e - big.e
             cut     == IF d <= 3 THEN 0
                        ELSE IF d - 3 > MantBits THEN MantBits + 1 ELSE d - 3
             shifted == IF d <= 3 THEN small.m * Pow2(3 - d) ELSE small.m \div Pow2(cut)
             sticky  == d > 3 /\ small.m % Pow2(cut) # 0
             sum     == big.m * 8 + shifted
             s       == BitLen(sum) - MantBits
         IN  F32Round(sum \div Pow2(s), sum % Pow2(s), s, sticky, big.e + 3 - s)

\* `f as u8` for f >= 0: truncation toward zero, saturating at 255
F32ToU8(f) ==
    IF f.m = 0 \/ f.e >= MantBits THEN 0
    ELSE LET t == f.m \div Pow2(f.e) IN IF t > 255 THEN 255 ELSE t

\* a signed f32: finite (with magnitude mag), infinite, or NaN
F32Fin(neg, mag) == [class |-> "fin", neg |-> neg, mag |-> mag]
F32Inf(neg) == [class |-> "inf", neg |-> neg, mag |-> F32Zero]
F32NaN == [class |-> "nan", neg |-> FALSE, mag |-> F32Zero]

\* the f32 nearest to t/10, for the decimals the model uses
F32OfTenths(t) ==
    CASE t = 0  -> F32Zero
      [] t = 2  -> [m |-> 13421773, e |-> 26]
      [] t = 3  -> [m |-> 10066330, e |-> 25]
      [] t = 5  -> F32Norm(1, 1)
      [] t = 7  -> [m |-> 11744051, e |-> 24]
      [] t = 10 -> F32Norm(1, 0)
      [] t = 15 -> F32Norm(3, 1)

\* the decimals t/10 that lie in [0, 1]
UnitTenths == {0, 3, 5, 7, 10}

\* what --opacity may parse to (f32::from_str also accepts "NaN" and "inf")
OpacityArgs ==
    {F32Fin(FALSE, F32OfTenths(t)) : t \in UnitTenths \cup {15}}
        \cup {F32Fin(TRUE, F32OfTenths(2)), F32NaN, F32Inf(FALSE), F32Inf(TRUE)}

\* #[arg(long, default_value = "0.3")]
DefaultOpacity == F32Fin(FALSE, F32OfTenths(3))

\* no VideoBackground exists yet
NoOpacity == [class |-> "unset", neg |-> FALSE, mag |-> F32Zero]

F32LessThanZero(v) == v.class # "nan" /\ v.neg /\ (v.class = "inf" \/ v.mag.m # 0)
F32GreaterThanOne(v) ==
    v.class # "nan" /\ ~v.neg /\ (v.class = "inf" \/ F32Less(F32OfTenths(10), v.mag))

\* opacity.clamp(0.0, 1.0): both comparisons are false for NaN, which is returned
clamp(v) ==
    IF F32LessThanZero(v) THEN F32Fin(FALSE, F32OfTenths(0))
    ELSE IF F32GreaterThanOne(v) THEN F32Fin(FALSE, F32OfTenths(10))
    ELSE v

\* a dimming that rounds the product to the nearest integer
DimNearest(c, o) ==
    IF o.class # "fin" \/ o.neg THEN 0
    ELSE F32ToU8(F32Add(F32MulU8(c, o.mag), F32OfTenths(5)))

\* (c as f32 * self.opacity) as u8: NaN casts to 0, the cast saturates
Dim(c, o) ==
    IF o.class = "nan" THEN 0
    ELSE IF o.class = "inf" THEN (IF c = 0 \/ o.neg THEN 0 ELSE 255)
    ELSE IF o.neg THEN 0
    ELSE F32ToU8(F32MulU8(c, o.mag))

-----------------------------------------------------------------------------
(* ASCII mapping: PALETTE, luminance, ascii_for, to_ascii_frame *)

\* ASCII palette from light to dark: the bytes of b" .'...B@$"
PALETTE ==
    << 32, 46, 39, 96, 94, 34, 44, 58, 59, 73, 108, 33, 105, 62, 60, 126,
       43, 95, 45, 63, 93, 91, 125, 123, 49, 41, 40, 124, 92, 116, 102, 106,
       114, 120, 110, 117, 118, 99, 122, 88, 89, 85, 74, 67, 76, 81, 48, 79,
       90, 109, 119, 113, 112, 100, 98, 107, 104, 97, 111, 42, 35, 77, 87, 38,
       56, 37, 66, 64, 36 >>

\* the f32 nearest to 0.299, 0.587 and 0.114
LumaR == [m |-> 10032775, e |-> 25]
LumaG == [m |-> 9848226, e |-> 24]
LumaB == [m |-> 15300821, e |-> 27]

\* 0.299 * r as f32 + 0.587 * g as f32 + 0.114 * b as f32, then `as u8`
luminance(r, g, b) ==
    F32ToU8(F32Add(F32Add(F32MulU8(r, LumaR), F32MulU8(g, LumaG)), F32MulU8(b, LumaB)))

\* an index that rounds up instead of down
PaletteIndexRoundedUp(y) == (y * (Len(PALETTE) - 1) + 254) \div 255

\* idx = (y * (PALETTE.len() - 1)) / 255
PaletteIndex(y) == (y * (Len(PALETTE) - 1)) \div 255

\* PALETTE[idx] as char, kept as the byte (sequences count from 1)
ascii_for(r, g, b) == PALETTE[PaletteIndex(luminance(r, g, b)) + 1]

\* the colours of the frames that show swatches
Swatches ==
    << <<255, 255, 255>>, <<0, 0, 0>>, <<10, 20, 30>>, <<37, 37, 37>>,
       <<200, 100, 50>>, <<255, 0, 0>>, <<1, 1, 1>>, <<128, 128, 128>> >>

\* the picture of frame f once decoded and rescaled to t: even frames show the
\* swatches, odd frames a gradient in which every pixel tells its position
Pixel(f, t, x, y) ==
    IF f % 2 = 0 THEN Swatches[((x + y * t.w) % Len(Swatches)) + 1]
    ELSE <<(x * 25 + f) % 256, (y * 25 + f) % 256, ((x + y) * 40) % 256>>

\* av_frame_get_buffer aligns every line to 32 bytes
LineAlign == 32
LineSize(w) == ((3 * w + LineAlign - 1) \div LineAlign) * LineAlign

\* what the padding bytes of a line hold (never initialised, never read)
PadByte == 0

\* scaler.run(&frame, &mut rgb): rgb is the RGB24 picture of t.w x t.h pixels,
\* data(0) holding the lines stride(0) bytes apart
ScalerRun(f, t) ==
    [w |-> t.w, h |-> t.h, stride |-> LineSize(t.w),
     data |-> [o \in 0..(t.h * LineSize(t.w) - 1) |->
                 LET y == o \div LineSize(t.w)
                     i == o % LineSize(t.w)
                 IN  IF i < 3 * t.w THEN Pixel(f, t, i \div 3, y)[(i % 3) + 1]
                     ELSE PadByte]]

\* a row loop that walks the whole line, padding included
RowCellsWholeLine(rgb) == rgb.stride \div 3

\* for x in 0..w
RowCells(rgb) == rgb.w

\* the inner loop of to_ascii_frame: the cells pushed for line y
RowOf(rgb, y) ==
    [k \in 1..RowCells(rgb) |->
        LET i == (k - 1) * 3
            r == rgb.data[y * rgb.stride + i]
            g == rgb.data[y * rgb.stride + i + 1]
            b == rgb.data[y * rgb.stride + i + 2]
        IN  <<ascii_for(r, g, b), r, g, b>>]

\* the outer loop of to_ascii_frame, from line y on
RECURSIVE CellsFrom(_, _)
CellsFrom(rgb, y) == IF y >= rgb.h THEN <<>> ELSE RowOf(rgb, y) \o CellsFrom(rgb, y + 1)

to_ascii_frame(rgb) == [w |-> rgb.w, h |-> rgb.h, cells |-> CellsFrom(rgb, 0)]

\* the AsciiFrame the worker builds for frame f: scaler.run, then to_ascii_frame
AsciiFrameOf(f) == to_ascii_frame(ScalerRun(f, target))

-----------------------------------------------------------------------------
(* Compositing: VideoBackground::render_background *)

\* Cell::default(): a space with no colour set (Color::Reset)
Reset == <<>>
Space == 32
EmptyCell == [ch |-> Space, fg |-> Reset]

\* a Buffer that covers the area and one more column and row on every side that
\* has room for it
BufferOver(a) ==
    [p \in (0..(a.x + a.width)) \X (0..(a.y + a.height)) |-> EmptyCell]

\* content_w without the clipping to the area
content_wUnclipped(a, af) == af.w

content_w(a, af) == Min(af.w, a.width)
content_h(a, af) == Min(af.h, a.height)

\* centring that rounds the left margin up
x0RoundedUp(a, af) == a.x + (a.width - content_w(a, af) + 1) \div 2

x0(a, af) == a.x + (a.width - content_w(a, af)) \div 2
y0(a, af) == a.y + (a.height - content_h(a, af)) \div 2

\* the loops of lines 191-207: the frame cells <<x, y>> that get drawn
DrawnCells(a, af) ==
    {c \in (0..(content_w(a, af) - 1)) \X (0..(content_h(a, af) - 1)) :
        c[2] * af.w + c[1] < Len(af.cells)}

\* what set_char and set_fg leave in the buffer cell for frame cell c
DrawnCell(af, c, o) ==
    LET cell == af.cells[c[2] * af.w + c[1] + 1]
    IN  [ch |-> cell[1], fg |-> <<Dim(cell[2], o), Dim(cell[3], o), Dim(cell[4], o)>>]

\* the buffer after render_background(a, b) with frame af installed; cell_mut
\* gives None outside the buffer
RenderFrame(b, a, af, o) ==
    [p \in DOMAIN b |->
        LET c == <<p[1] - x0(a, af), p[2] - y0(a, af)>>
        IN  IF c \in DrawnCells(a, af) THEN DrawnCell(af, c, o) ELSE b[p]]

\* render_background: nothing is drawn while `latest` is None
RenderBackground(b, a, l, o) == IF l = None THEN b ELSE RenderFrame(b, a, AsciiFrameOf(l), o)

\* the terminal the pipeline model runs in: one cell
DefaultTarget == [w |-> 1, h |-> 1]
DefaultArea == [x |-> 0, y |-> 0, width |-> 1, height |-> 1]

-----------------------------------------------------------------------------
(* The chat: ChatInterface of src/src/chat.rs *)

Providers == {"Claude", "Grok", "OpenAI", "Gemini"}

\* the F2 cycle
NextProvider(p) ==
    CASE p = "Claude" -> "Grok"
      [] p = "Grok"   -> "OpenAI"
      [] p = "OpenAI" -> "Gemini"
      [] p = "Gemini" -> "Claude"

\* the characters the user types
Chars == {"a"}

UserMessage(content) == [role |-> "User", content |-> content, is_system |-> FALSE]
AssistantMessage(content) ==
    [role |-> "Assistant", content |-> content, is_system |-> FALSE]

\* the text of the response to a request that was sent to provider p
ResponseOf(p) == <<"response of", p>>

\* format!("Switched to {}", self.provider.name()) and format!("Error: {}", e)
SwitchedTo(p) == <<"Switched to", p>>
ErrorOf(p) == <<"Error:", p>>

\* an add_system_message that starts the conversation afresh
add_system_messageAfresh(m, p, content) ==
    [m EXCEPT ![p] =
        <<[role |-> "Assistant", content |-> <<"tool">> \o content, is_system |-> TRUE]>>]

\* add_system_message: pushed onto the conversation of provider p, the current one
add_system_message(m, p, content) ==
    [m EXCEPT ![p] =
        Append(@, [role |-> "Assistant", content |-> <<"tool">> \o content,
                   is_system |-> TRUE])]

\* Database::new() failed: db is None
NoDb == [present |-> FALSE, rows |-> [p \in Providers |-> <<>>]]

\* a database with nothing saved
EmptyDb == [present |-> TRUE, rows |-> [p \in Providers |-> <<>>]]

\* db.save_message(provider, role, content), when there is a database
save_message(d, p, role, content) ==
    IF ~d.present THEN d
    ELSE [d EXCEPT !.rows[p] = Append(@, [role |-> role, content |-> content])]

\* db.clear_history(provider), when there is a database
clear_history(d, p) == IF ~d.present THEN d ELSE [d EXCEPT !.rows[p] = <<>>]

\* load_all_histories: every saved row becomes a message that is not a system one
LoadedHistories(d) ==
    [p \in Providers |->
        [i \in 1..Len(d.rows[p]) |->
            IF d.rows[p][i].role = "user" THEN UserMessage(d.rows[p][i].content)
            ELSE AssistantMessage(d.rows[p][i].content)]]

\* a subtraction that is left out
NotSubtracted(a, b) == a

\* usize::saturating_sub
saturating_sub(a, b) == IF a > b THEN a - b ELSE 0

\* the PageUp / PageDown step
PageStep == 10

-----------------------------------------------------------------------------
(* Initial state: the process has started, nothing is constructed yet *)

Start(rec) ==
    /\ packets \in Sources
    /\ damaged \in Damages(packets)
    /\ record = rec
    /\ mpc = "start"
    /\ mainResult = "none"
    /\ newResult = "none"
    /\ rxAlive = FALSE
    /\ queue = <<>>
    /\ latest = None
    /\ wpc = "unspawned"
    /\ wstop = "none"
    /\ finished_flag = FALSE
    /\ pos = 0
    /\ dec = NewDecoder
    /\ ascii = None
    /\ kept = BuiltAtOpen
    /\ published = <<>>
    /\ installed = <<>>
    /\ sendFailed = FALSE
    /\ swallowed = {}
    /\ opacityArg = DefaultOpacity
    /\ opacity = NoOpacity
    /\ target = DefaultTarget
    /\ area = DefaultArea
    /\ buf = BufferOver(DefaultArea)
    /\ provider = "Claude"
    /\ ai_client = "Claude"
    /\ messages_per_provider = LoadedHistories(EmptyDb)
    /\ input_buffer = <<>>
    /\ scroll_offset = 0
    /\ is_streaming = FALSE
    /\ show_help = FALSE
    /\ responses = <<>>
    /\ tasks = {}
    /\ requests = 0
    /\ db = EmptyDb

\* the process starts; the histories of what was published and installed are kept
Init == Start(TRUE)

\* the same start with no histories kept, so that the worker can loop for ever
PlayInit == Start(FALSE)

-----------------------------------------------------------------------------
(* The worker thread: the closure of spawn_decode *)

\* the thread's closure returns (Ok or Err): the container, the decoder, the frame
\* in hand and the sender are dropped
WorkerExit(reason) ==
    /\ wpc' = "stopped"
    /\ wstop' = reason
    /\ ascii' = None
    /\ pos' = 0
    /\ dec' = NewDecoder
    /\ kept' = BuiltAtOpen

\* lines 105-115: open_decoder and build_scaler, inside the thread
WorkerOpen ==
    /\ wpc = "open"
    /\ \/ /\ wpc' = "packet"
          /\ pos' = 0
          /\ dec' = NewDecoder
          /\ kept' = BuiltAtOpen
          /\ UNCHANGED <<wstop, ascii>>
       \/ WorkerExit("open_error")
    /\ UNCHANGED <<fileVars, chatVars, screenVars, opacity, mainVars, rxAlive, queue, latest, finished_flag, histVars>>

\* lines 118-122: the next packet of the pass; other streams are skipped
WorkerPacket ==
    /\ wpc = "packet"
    /\ pos < Len(packets)
    /\ IF packets[pos + 1] # VideoIdx
       THEN /\ pos' = pos + 1
            /\ UNCHANGED <<wpc, wstop, dec, ascii, kept>>
       ELSE \/ /\ pos' = pos + 1
               /\ dec' \in AfterSendPacket(dec, pos + 1)
               /\ wpc' = "recv_s"
               /\ UNCHANGED <<wstop, ascii, kept>>
            \/ WorkerExit("send_packet_error")
    /\ UNCHANGED <<fileVars, chatVars, screenVars, opacity, mainVars, rxAlive, queue, latest, finished_flag, histVars>>

\* lines 124-126 (phase "s") and 136-138 (phase "f"): receive, rescale, map
WorkerReceive(here, phase, scaleError, sendAt, elseAt) ==
    /\ wpc = here
    /\ \/ /\ ReceiveOk(dec)
          /\ ReceivedFrame(dec) \notin damaged
          /\ \/ /\ dec' = AfterReceive(dec)
                /\ ascii' = ReceivedFrame(dec)
                /\ wpc' = sendAt
                /\ UNCHANGED <<wstop, pos, kept>>
             \/ WorkerExit(scaleError)
          /\ UNCHANGED swallowed
       \/ /\ ~ReceiveOk(dec)
          /\ wpc' = elseAt
          /\ UNCHANGED <<dec, wstop, ascii, swallowed, pos, kept>>
       \/ \* a real decode error: is_ok() is false, the loop ends, the frame is gone
          /\ ReceiveOk(dec)
          /\ ReceivedFrame(dec) \in damaged
          /\ dec' = AfterReceive(dec)
          /\ swallowed' = swallowed \cup {phase}
          /\ wpc' = elseAt
          /\ UNCHANGED <<wstop, ascii, pos, kept>>
    /\ UNCHANGED <<fileVars, chatVars, screenVars, opacity, mainVars, rxAlive, queue, latest, finished_flag,
                   published, installed, sendFailed>>

WorkerReceiveStreaming == WorkerReceive("recv_s", "s", "scale_error_s", "send_s", "packet")

WorkerReceiveFlushing == WorkerReceive("recv_f", "f", "scale_error_f", "send_f", "restart")

\* a send that succeeds: the frame enters the channel
Publish(next) ==
    /\ rxAlive
    /\ SendHasRoom(queue)
    /\ record => Len(published) < MaxPublished
    /\ queue' = Append(queue, ascii)
    /\ published' = IF record THEN Append(published, ascii) ELSE published
    /\ ascii' = None
    /\ wpc' = next
    /\ UNCHANGED <<wstop, finished_flag, sendFailed, pos, dec, kept>>

\* lines 127-130: tx.send in Streaming; Err means the receiver is gone
WorkerSendStreaming ==
    /\ wpc = "send_s"
    /\ \/ Publish("recv_s")
       \/ /\ ~rxAlive
          /\ finished_flag' = TRUE
          /\ sendFailed' = TRUE
          /\ WorkerExit("receiver_gone")
          /\ UNCHANGED <<queue, published>>
    /\ UNCHANGED <<fileVars, chatVars, screenVars, opacity, mainVars, rxAlive, latest, installed, swallowed>>

\* line 139: let _ = tx.send(ascii) in Flushing; the result is discarded
WorkerSendFlushing ==
    /\ wpc = "send_f"
    /\ \/ Publish("recv_f")
       \/ /\ ~rxAlive
          /\ sendFailed' = TRUE
          /\ ascii' = None
          /\ wpc' = "recv_f"
          /\ UNCHANGED <<wstop, finished_flag, queue, published, pos, dec, kept>>
    /\ UNCHANGED <<fileVars, chatVars, screenVars, opacity, mainVars, rxAlive, latest, installed, swallowed>>

\* line 135: the packets of the pass are exhausted; dec.send_eof()?
WorkerSendEof ==
    /\ wpc = "packet"
    /\ pos >= Len(packets)
    /\ \/ /\ dec' = AfterSendEof(dec)
          /\ wpc' = "recv_f"
          /\ UNCHANGED <<wstop, ascii, pos, kept>>
       \/ WorkerExit("send_eof_error")
    /\ UNCHANGED <<fileVars, chatVars, screenVars, opacity, mainVars, rxAlive, queue, latest, finished_flag, histVars>>

\* lines 143-146: seek to the start and build a new decoder
WorkerRestart ==
    /\ wpc = "restart"
    /\ \/ /\ pos' = SeekTarget
          /\ dec' = RebuiltDecoder
          /\ kept' = KeptAcrossSeek
          /\ wpc' = "packet"
          /\ UNCHANGED <<wstop, ascii>>
       \/ WorkerExit("restart_error")
    /\ UNCHANGED <<fileVars, chatVars, screenVars, opacity, mainVars, rxAlive, queue, latest, finished_flag, histVars>>

Worker ==
    \/ WorkerOpen
    \/ WorkerPacket
    \/ WorkerReceiveStreaming
    \/ WorkerSendStreaming
    \/ WorkerSendEof
    \/ WorkerReceiveFlushing
    \/ WorkerSendFlushing
    \/ WorkerRestart

-----------------------------------------------------------------------------
(* The main thread: main, App::new, VideoBackground::new, the render loop *)

\* main returns: `app` (and with it the Receiver) is dropped
MainReturn(result) ==
    /\ mpc' = "done"
    /\ mainResult' = result
    /\ rxAlive' = FALSE

\* an update that keeps the newest queued frame instead of the oldest
UpdateLatestNewest(q, l) == IF TryRecvOk(q) THEN q[Len(q)] ELSE l

\* an update that blanks the retained frame when nothing is queued
UpdateLatestBlank(q, l) == IF TryRecvOk(q) THEN Head(q) ELSE None

\* VideoBackground::update, lines 173-178: one try_recv; Ok(af) replaces `latest`
UpdateLatest(q, l) == IF TryRecvOk(q) THEN Head(q) ELSE l

\* an update that empties the channel in one call
UpdateQueueDrain(q) == <<>>

\* what try_recv leaves in the channel
UpdateQueue(q) == IF TryRecvOk(q) THEN Tail(q) ELSE q

\* main 118-125 with App::new 43: the terminal cannot be set up or sized;
\* VideoBackground::new is never called
MainSetupFails ==
    /\ mpc = "start"
    /\ MainReturn("Err")
    /\ UNCHANGED <<fileVars, chatVars, screenVars, opacity, newResult, queue, latest, workerVars, histVars>>

\* VideoBackground::new line 161: ff::init()? fails; App::new and main pass it on
VideoNewFails ==
    /\ mpc = "start"
    /\ newResult' = "Err"
    /\ MainReturn("Err")
    /\ UNCHANGED <<fileVars, chatVars, screenVars, opacity, queue, latest, workerVars, histVars>>

\* VideoBackground::new lines 161-170 with spawn_decode 102-104, 150: the channel
\* is made, the thread is spawned, Ok(rx) is returned without waiting for it
VideoNewOk ==
    /\ mpc = "start"
    /\ newResult' = "Ok"
    /\ rxAlive' = TRUE
    /\ queue' = <<>>
    /\ latest' = None
    /\ wpc' = "open"
    /\ mpc' = "draw"
    /\ opacity' = clamp(opacityArg)
    /\ UNCHANGED <<fileVars, chatVars, screenVars, mainResult, wstop, finished_flag, pos, dec, ascii,
                   kept, histVars>>

\* main 128-132: terminal.draw; render_background reads `latest` only
MainDraw ==
    /\ mpc = "draw"
    /\ \/ /\ mpc' = "input"
          /\ UNCHANGED <<mainResult, rxAlive>>
       \/ MainReturn("Err")
    /\ UNCHANGED <<fileVars, chatVars, screenVars, opacity, newResult, queue, latest, workerVars, histVars>>

\* main 134-138 with App::handle_input: no quit key, Esc / Ctrl+C, or a poll error
MainInput ==
    /\ mpc = "input"
    /\ \/ /\ mpc' = "update"
          /\ UNCHANGED <<mainResult, rxAlive>>
       \/ MainReturn("Ok")
       \/ MainReturn("Err")
    /\ UNCHANGED <<fileVars, chatVars, screenVars, opacity, newResult, queue, latest, workerVars, histVars>>

\* main 140 with App::update: video_bg.update(); chat.update() returns Ok
MainUpdate ==
    /\ mpc = "update"
    /\ latest' = UpdateLatest(queue, latest)
    /\ queue' = UpdateQueue(queue)
    /\ installed' = IF record /\ TryRecvOk(queue) THEN Append(installed, latest')
                     ELSE installed
    /\ mpc' = "draw"
    /\ UNCHANGED <<fileVars, chatVars, screenVars, opacity, mainResult, newResult, rxAlive, workerVars,
                   published, sendFailed, swallowed>>

\* the process ends once main has returned: a worker still running ends with it
ProcessExit ==
    /\ mpc = "done"
    /\ wpc \notin {"unspawned", "stopped"}
    /\ WorkerExit("process_exit")
    /\ UNCHANGED <<fileVars, chatVars, screenVars, opacity, mainVars, rxAlive, queue, latest, finished_flag, histVars>>

Main ==
    \/ MainSetupFails
    \/ VideoNewFails
    \/ VideoNewOk
    \/ MainDraw
    \/ MainInput
    \/ MainUpdate

Next == Main \/ Worker \/ ProcessExit

Spec == Init /\ [][Next]_vars

\* the main loop keeps ticking and the worker thread keeps being scheduled
LiveSpec == Spec /\ WF_vars(Main) /\ WF_vars(Worker)

\* both threads scheduled fairly, with no bound on how many frames are published
PlaySpec == PlayInit /\ [][Next]_vars /\ WF_vars(Main) /\ WF_vars(Worker)

-----------------------------------------------------------------------------
(* Type correctness *)

WorkerStates ==
    {"unspawned", "open", "packet", "recv_s", "send_s", "recv_f", "send_f", "restart",
     "stopped"}

TypeOK ==
    /\ packets \in Sources
    /\ damaged \in Damages(packets)
    /\ record = TRUE
    /\ swallowed \subseteq {"s", "f"}
    /\ mpc \in {"start", "draw", "input", "update", "done"}
    /\ mainResult \in {"none", "Ok", "Err"}
    /\ newResult \in {"none", "Ok", "Err"}
    /\ rxAlive \in BOOLEAN
    /\ latest \in {None} \cup VideoFrames(packets)
    /\ Range(queue) \subseteq VideoFrames(packets)
    /\ wpc \in WorkerStates
    /\ finished_flag \in BOOLEAN
    /\ pos \in 0..Len(packets)
    /\ dec.ready <= Len(dec.buf)
    /\ ascii \in {None} \cup VideoFrames(packets)
    /\ Len(published) <= MaxPublished
    /\ sendFailed \in BOOLEAN

-----------------------------------------------------------------------------
(* Properties *)

LoopStates == {"draw", "input", "update"}

SendStates == {"send_s", "send_f"}

IsPrefix(s, t) == Len(s) <= Len(t) /\ \A i \in 1..Len(s) : s[i] = t[i]

\* the worker is inside tx.send with the channel full and the receiver alive
BlockedInSend == wpc \in SendStates /\ rxAlive /\ Len(queue) = QueueCap

\* C1: the channel never holds more than QueueCap frames; the worker never gets
\* more than QueueCap successful sends ahead of what update() has taken out, so
\* once update() is no longer called at most QueueCap further sends complete;
\* and a worker sending into a full channel whose receiver lives cannot take a
\* step (it stays blocked until a frame is received or the receiver is dropped).
C1_Backpressure ==
    /\ Len(queue) <= QueueCap
    /\ Len(published) <= Len(installed) + QueueCap
    /\ BlockedInSend => ~ENABLED Worker

\* C1 witness: the consumer has taken nothing, eight frames are queued and the
\* worker sits in send with the ninth
C1_Witness ==
    /\ BlockedInSend
    /\ installed = <<>>
    /\ Len(published) = QueueCap
    /\ ascii # None

\* C2: the frames update() installed are a prefix of the frames published, in
\* order; what was published and not yet installed is exactly the channel's
\* content, in order (nothing skipped, duplicated or reordered); `latest` is the
\* frame installed last.
C2_Fifo ==
    /\ IsPrefix(installed, published)
    /\ published = installed \o queue
    /\ latest = IF installed = <<>> THEN None ELSE Last(installed)

\* C2 witness: two different frames were installed while others wait
C2_Witness ==
    /\ Len(installed) >= 2
    /\ installed[1] # installed[2]
    /\ Len(queue) >= 2
    /\ queue[1] # queue[2]

\* C3: once a send has failed because the receiver is gone, the worker is
\* stopped: it went there at once, whether the send was in Streaming or in
\* Flushing, and decodes, seeks or rebuilds nothing afterwards.
C3_Cancellation == sendFailed => wpc = "stopped"

\* C4: VideoBackground::new has not returned Ok for a pipeline whose Opening
\* step (open_decoder, build_scaler) failed.
C4_OpeningSynchronous == ~(newResult = "Ok" /\ wstop = "open_error")

\* C5: update() never blocks (it can always complete, whatever the worker does),
\* never fails (the loop continues at draw and main has not returned), takes at
\* most one frame out of the channel, and when it takes one, `latest` is exactly
\* that frame, the oldest queued.
C5_UpdateOneReceive ==
    /\ [](mpc = "update" => ENABLED MainUpdate)
    /\ [][(mpc = "update" /\ mpc' # "update") =>
            /\ mpc' = "draw"
            /\ mainResult' = "none"
            /\ Len(queue') + 1 >= Len(queue)
            /\ queue # <<>> => (queue' = Tail(queue) /\ latest' = Head(queue))]_vars

\* C5 witness: an update() took the first frame out of a full channel while the
\* worker was blocked in send
C5_Witness ==
    /\ mpc = "draw"
    /\ Len(installed) = 1
    /\ latest = installed[1]
    /\ Len(published) = QueueCap
    /\ Len(queue) = QueueCap - 1
    /\ wpc \in SendStates

\* C6: an update() that finds the channel empty leaves `latest` as it was, with
\* the worker alive or gone; and once `latest` holds a frame no step of the
\* program makes it None again.
C6_EmptyUpdateNoOp ==
    [][/\ (mpc = "update" /\ mpc' # "update" /\ queue = <<>>) => latest' = latest
       /\ latest # None => latest' # None]_vars

\* C6 witness: update() is called with nothing pending, a frame retained and the
\* worker gone after a decode error
C6_Witness ==
    /\ mpc = "update"
    /\ queue = <<>>
    /\ latest # None
    /\ wpc = "stopped"
    /\ rxAlive

\* C7: with no decode error, the published frames repeat with period k, the
\* number of frames in the file, whatever the decoder held back.
C7_Looping ==
    swallowed = {} =>
        \A n \in 1..Len(published) :
            n + NumFrames(packets) <= Len(published) =>
                published[n + NumFrames(packets)] = published[n]

\* C7 witness: a three-frame file whose fourth published frame is the first
\* again, and whose frames differ within a pass
C7_Witness ==
    /\ NumFrames(packets) = 3
    /\ swallowed = {}
    /\ Len(published) >= 6
    /\ published[4] = published[1]
    /\ published[2] # published[1]
    /\ published[3] # published[2]

\* C8: once send_packet, receive_frame or the rescaler has raised an error
\* during Streaming, the worker is stopped (and so publishes nothing more).
C8_StreamErrorTerminal ==
    (\/ wstop \in {"send_packet_error", "scale_error_s"}
     \/ "s" \in swallowed) => wpc = "stopped"

\* the frame the display freezes on once the worker is gone
FrozenFrame == IF published = <<>> THEN None ELSE Last(published)

\* C9: if update() keeps being called, then from any state in which the worker
\* has terminated, `latest` eventually is the last frame published and stays it
\* forever.
C9_FreezeOnLastFrame ==
    ([]<><<MainUpdate>>_vars) => [](wpc = "stopped" => <>[](latest = FrozenFrame))

\* C9 witness: the worker died of an error with frames still queued, and the
\* consumer has since drained them down to the last one published
C9_Witness ==
    /\ wpc = "stopped"
    /\ wstop \notin {"receiver_gone", "process_exit"}
    /\ rxAlive
    /\ Len(installed) >= 3
    /\ queue = <<>>
    /\ latest = Last(published)

\* C10: when VideoBackground::new has returned an error, the application is in
\* its render/input loop (running without a background video).
C10_RunsWithoutVideo == newResult = "Err" => mpc \in LoopStates

-----------------------------------------------------------------------------
(* The data path on its own: VideoBackground::new, the worker's conversion  *)
(* of one frame after the other, update and render_background, applied to   *)
(* terminal sizes, areas, opacities and pictures drawn from the sets below. *)

Sizes == 1..MaxDim
Origins == 0..MaxOrigin

\* every small frame size in every small area, drawn at full opacity
GeometryCases ==
    {[t |-> [w |-> w, h |-> h],
      a |-> [x |-> x, y |-> y, width |-> aw, height |-> ah],
      o |-> F32Fin(FALSE, F32OfTenths(10)),
      p |-> <<VideoIdx>>] :
        w \in Sizes, h \in Sizes, aw \in 0..(MaxDim + 1), ah \in 0..(MaxDim + 1),
        x \in Origins, y \in Origins}

\* a 4x4 frame in a 10x10 area, and a 10x10 frame in a 3x3 area
ExampleCases ==
    {[t |-> [w |-> 4, h |-> 4], a |-> [x |-> x, y |-> x, width |-> 10, height |-> 10],
      o |-> F32Fin(FALSE, F32OfTenths(10)), p |-> <<VideoIdx>>] : x \in Origins}
    \cup
    {[t |-> [w |-> 10, h |-> 10], a |-> [x |-> x, y |-> x, width |-> 3, height |-> 3],
      o |-> F32Fin(FALSE, F32OfTenths(10)), p |-> <<VideoIdx>>] : x \in Origins}

\* a gradient frame and a swatch frame at every opacity
ColourCases ==
    {[t |-> [w |-> 4, h |-> 2], a |-> [x |-> 0, y |-> 0, width |-> 4, height |-> 2],
      o |-> o, p |-> <<VideoIdx, VideoIdx>>] : o \in OpacityArgs}

DataCases == GeometryCases \cup ExampleCases \cup ColourCases

DataInit ==
    \E c \in DataCases :
        /\ packets = c.p
        /\ damaged = {}
        /\ record = TRUE
        /\ mpc = "start"
        /\ mainResult = "none"
        /\ newResult = "none"
        /\ rxAlive = FALSE
        /\ queue = <<>>
        /\ latest = None
        /\ wpc = "unspawned"
        /\ wstop = "none"
        /\ finished_flag = FALSE
        /\ pos = 0
        /\ dec = NewDecoder
        /\ ascii = None
        /\ kept = BuiltAtOpen
    /\ kept = BuiltAtOpen
        /\ published = <<>>
        /\ installed = <<>>
        /\ sendFailed = FALSE
        /\ swallowed = {}
        /\ opacityArg = c.o
        /\ opacity = NoOpacity
        /\ target = c.t
        /\ area = c.a
        /\ buf = BufferOver(c.a)
        /\ provider = "Claude"
        /\ ai_client = "Claude"
        /\ messages_per_provider = LoadedHistories(EmptyDb)
        /\ input_buffer = <<>>
        /\ scroll_offset = 0
        /\ is_streaming = FALSE
        /\ show_help = FALSE
        /\ responses = <<>>
        /\ tasks = {}
        /\ requests = 0
        /\ db = EmptyDb

\* VideoBackground::new lines 160-171, seen by its caller: the receiver, no frame
\* yet, the clamped opacity
CallNew ==
    /\ newResult = "none"
    /\ newResult' = "Ok"
    /\ rxAlive' = TRUE
    /\ queue' = <<>>
    /\ latest' = None
    /\ opacity' = clamp(opacityArg)
    /\ UNCHANGED <<fileVars, chatVars, screenVars, mpc, mainResult, workerVars, histVars>>

\* spawn_decode lines 124-127 and 136-139 for the next frame of the file:
\* scaler.run, to_ascii_frame (AsciiFrameOf gives the frame sent), tx.send
ConvertAndSend ==
    /\ newResult = "Ok"
    /\ pos < Len(packets)
    /\ SendHasRoom(queue)
    /\ pos' = pos + 1
    /\ queue' = Append(queue, pos + 1)
    /\ published' = Append(published, pos + 1)
    /\ UNCHANGED <<fileVars, chatVars, screenVars, opacity, mainVars, rxAlive, latest, wpc, wstop,
                   finished_flag, dec, ascii, kept, installed, sendFailed, swallowed>>

\* VideoBackground::update lines 173-178
CallUpdate ==
    /\ newResult = "Ok"
    /\ latest' = UpdateLatest(queue, latest)
    /\ queue' = UpdateQueue(queue)
    /\ installed' = IF record /\ TryRecvOk(queue) THEN Append(installed, latest')
                     ELSE installed
    /\ UNCHANGED <<fileVars, chatVars, screenVars, opacity, mainVars, rxAlive, workerVars, published,
                   sendFailed, swallowed>>

\* VideoBackground::render_background lines 181-209 on the buffer and area given
CallRender ==
    /\ newResult = "Ok"
    /\ buf' = RenderBackground(buf, area, latest, opacity)
    /\ UNCHANGED <<fileVars, chatVars, opacityArg, target, area, opacity, mainVars, rxAlive, queue,
                   latest, workerVars, histVars>>

DataNext == CallNew \/ ConvertAndSend \/ CallUpdate \/ CallRender

DataSpec == DataInit /\ [][DataNext]_vars

-----------------------------------------------------------------------------
(* Claims about compositing, checked under DataSpec *)

InArea(p, a) ==
    /\ a.x <= p[1] /\ p[1] < a.x + a.width
    /\ a.y <= p[2] /\ p[2] < a.y + a.height

\* where the claim places frame cell <<cx, cy>> of a w x h frame in area a
PlaceOf(a, w, h, c) ==
    <<a.x + (a.width - Min(w, a.width)) \div 2 + c[1],
      a.y + (a.height - Min(h, a.height)) \div 2 + c[2]>>

\* the top-left sub-rectangle of a w x h frame that area a has room for
SubRect(a, w, h) == (0..(Min(w, a.width) - 1)) \X (0..(Min(h, a.height) - 1))

\* C11: whenever render_background draws a frame, exactly the top-left
\* min(w,aw) x min(h,ah) cells of the frame are drawn, cell (cx,cy) at
\* (x + (aw - min(w,aw))/2 + cx, y + (ah - min(h,ah))/2 + cy); every index read is
\* below w*h and every position written lies inside the area; a 4x4 frame in a
\* 10x10 area starts 3 cells in, a 10x10 frame in a 3x3 area shows its top-left 3x3
C11_CenteringAndClipping ==
    [][(CallRender /\ latest # None) =>
        LET af == AsciiFrameOf(latest)
            sub == SubRect(area, af.w, af.h)
        IN  /\ \A c \in sub :
                LET i == c[2] * af.w + c[1]
                    p == PlaceOf(area, af.w, af.h, c)
                IN  /\ i < af.w * af.h
                    /\ InArea(p, area)
                    /\ buf'[p].ch = af.cells[i + 1][1]
                    /\ buf'[p].fg = <<Dim(af.cells[i + 1][2], opacity),
                                      Dim(af.cells[i + 1][3], opacity),
                                      Dim(af.cells[i + 1][4], opacity)>>
            /\ \A p \in DOMAIN buf :
                buf'[p] # buf[p] => \E c \in sub : p = PlaceOf(area, af.w, af.h, c)
            /\ (af.w = 4 /\ af.h = 4 /\ area.width = 10 /\ area.height = 10)
                => PlaceOf(area, af.w, af.h, <<0, 0>>) = <<area.x + 3, area.y + 3>>
            /\ (af.w = 10 /\ af.h = 10 /\ area.width = 3 /\ area.height = 3)
                => /\ sub = (0..2) \X (0..2)
                   /\ PlaceOf(area, af.w, af.h, <<0, 0>>) = <<area.x, area.y>>
    ]_vars

\* a 4x4 frame has been drawn into a 10x10 area: its first cell sits 3 cells in,
\* the cell before it is untouched
C11_Witness ==
    /\ target = [w |-> 4, h |-> 4]
    /\ area.width = 10 /\ area.height = 10
    /\ latest # None
    /\ buf[<<area.x + 3, area.y + 3>>].fg # Reset
    /\ buf[<<area.x + 2, area.y + 3>>] = EmptyCell
    /\ buf[<<area.x + 6, area.y + 6>>].fg # Reset
    /\ buf[<<area.x + 7, area.y + 6>>] = EmptyCell

\* C12: a step that changes the buffer (a render_background call) leaves
\* `latest`, the queue and the opacity as they were and changes no cell outside
\* the centred frame/area intersection; while no frame was ever received, no
\* step changes the buffer
C12_RenderFrameCondition ==
    [][/\ (latest = None => buf' = buf)
       /\ (CallRender \/ buf' # buf) =>
            /\ latest' = latest
            /\ queue' = queue
            /\ opacity' = opacity
            /\ latest # None =>
                LET af == AsciiFrameOf(latest)
                IN  \A p \in DOMAIN buf :
                        (\/ ~InArea(p, area)
                         \/ \A c \in SubRect(area, af.w, af.h) :
                                p # PlaceOf(area, af.w, af.h, c))
                            => buf'[p] = buf[p]
    ]_vars

\* a frame smaller than the area has been drawn: cells of the area around it,
\* and cells outside the area, are still empty
C12_Witness ==
    /\ latest # None
    /\ target.w < area.width /\ target.h < area.height
    /\ area.x > 0
    /\ \E p \in DOMAIN buf : buf[p].fg # Reset
    /\ \E p \in DOMAIN buf : InArea(p, area) /\ buf[p] = EmptyCell
    /\ \A p \in DOMAIN buf : ~InArea(p, area) => buf[p] = EmptyCell

-----------------------------------------------------------------------------
(* Claims about the frames and their colours, checked under DataSpec *)

\* C13: every AsciiFrame published has width * height cells and the width and
\* height of the target, and the target never changes
C13_FrameShape ==
    /\ [](\A i \in 1..Len(published) :
            LET af == AsciiFrameOf(published[i])
            IN  /\ Len(af.cells) = af.w * af.h
                /\ af.w = target.w
                /\ af.h = target.h)
    /\ [][target' = target]_vars

\* two frames of a size whose lines carry padding have been published
C13_Witness ==
    /\ Len(published) = 2
    /\ target.w # target.h
    /\ LineSize(target.w) > 3 * target.w

\* the pixel of frame f that cell number k (from 1, row-major) was made from
PixelOfCell(f, k) == Pixel(f, target, (k - 1) % target.w, (k - 1) \div target.w)

\* C14: for every luminance y in 0..255 the palette index is
\* floor(y * (P - 1) / 255), lies in 0..P-1, is 0 for luminance 0 and P-1 for
\* luminance 255, and never falls as y grows; every cell of a published frame
\* carries the palette character of its pixel's luminance and the pixel's own
\* (r, g, b)
C14_PaletteIndex ==
    LET P == Len(PALETTE)
    IN  /\ \A y \in 0..255 :
            /\ PaletteIndex(y) \in 0..(P - 1)
            /\ PaletteIndex(y) * 255 <= y * (P - 1)
            /\ y * (P - 1) < (PaletteIndex(y) + 1) * 255
        /\ PaletteIndex(0) = 0
        /\ PaletteIndex(255) = P - 1
        /\ \A y \in 0..254 : PaletteIndex(y) <= PaletteIndex(y + 1)
        /\ \A i \in 1..Len(published) :
            LET af == AsciiFrameOf(published[i])
            IN  \A k \in 1..Len(af.cells) :
                    LET px == PixelOfCell(published[i], k)
                    IN  /\ <<af.cells[k][2], af.cells[k][3], af.cells[k][4]>> = px
                        /\ af.cells[k][1]
                             = PALETTE[PaletteIndex(luminance(px[1], px[2], px[3])) + 1]

\* the swatch frame has been published: its black pixel became the first palette
\* character, its white pixel the last, each with its colour kept
C14_Witness ==
    /\ Len(published) = 2
    /\ LET af == AsciiFrameOf(published[2])
       IN  /\ \E k \in 1..Len(af.cells) : af.cells[k] = <<PALETTE[1], 0, 0, 0>>
           /\ \E k \in 1..Len(af.cells) :
                af.cells[k] = <<PALETTE[Len(PALETTE)], 255, 255, 255>>

\* C15: the opacity stored by new always lies in [0, 1]
C15_StoredOpacityInUnitRange ==
    newResult = "Ok" =>
        /\ opacity.class = "fin"
        /\ ~F32LessThanZero(opacity)
        /\ ~F32GreaterThanOne(opacity)

\* the opacities t/10 with t in ts, as stored
StoredTenths(ts) == {F32Fin(FALSE, F32OfTenths(t)) : t \in ts}

\* floor(c * t / 10)
FloorOfTenths(c, t) == (c * t) \div 10

\* what the claim says of one render call whose stored opacity is t/10
DimmedByFloor(t) ==
    LET af == AsciiFrameOf(latest)
    IN  \A c \in SubRect(area, af.w, af.h) :
            LET cell == af.cells[c[2] * af.w + c[1] + 1]
                drawn == buf'[PlaceOf(area, af.w, af.h, c)]
            IN  /\ drawn.ch = cell[1]
                /\ drawn.fg = <<FloorOfTenths(cell[2], t), FloorOfTenths(cell[3], t),
                                FloorOfTenths(cell[4], t)>>
                /\ t = 10 => drawn.fg = <<cell[2], cell[3], cell[4]>>
                /\ t = 0 => drawn.fg = <<0, 0, 0>>

\* what the claim says of the white pixels drawn at opacity 0.5, for a palette
\* of P characters
WhiteAtHalf(P) ==
    LET af == AsciiFrameOf(latest)
    IN  \A c \in SubRect(area, af.w, af.h) :
            LET cell == af.cells[c[2] * af.w + c[1] + 1]
                drawn == buf'[PlaceOf(area, af.w, af.h, c)]
            IN  <<cell[2], cell[3], cell[4]>> = <<255, 255, 255>> =>
                    /\ Len(PALETTE) = P
                    /\ PaletteIndex(luminance(255, 255, 255)) = P - 1
                    /\ drawn = [ch |-> PALETTE[Len(PALETTE)], fg |-> <<127, 127, 127>>]

-----------------------------------------------------------------------------
(* The chat on its own: ChatInterface::new, then key events, finished         *)
(* requests and update() calls in any order.                                  *)

\* the provider given on the command line (its default)
StartProviders == {"Claude"}

\* what the database holds when the program starts
SavedDbs ==
    {NoDb, EmptyDb,
     [EmptyDb EXCEPT !.rows["Grok"] = <<[role |-> "user", content |-> <<"a">>]>>]}

ChatInit ==
    /\ packets = <<VideoIdx>>
    /\ damaged = {}
    /\ record = TRUE
    /\ mpc = "start"
    /\ mainResult = "none"
    /\ newResult = "none"
    /\ rxAlive = FALSE
    /\ queue = <<>>
    /\ latest = None
    /\ wpc = "unspawned"
    /\ wstop = "none"
    /\ finished_flag = FALSE
    /\ pos = 0
    /\ dec = NewDecoder
    /\ ascii = None
    /\ kept = BuiltAtOpen
    /\ published = <<>>
    /\ installed = <<>>
    /\ sendFailed = FALSE
    /\ swallowed = {}
    /\ opacityArg = DefaultOpacity
    /\ opacity = NoOpacity
    /\ target = DefaultTarget
    /\ area = DefaultArea
    /\ buf = BufferOver(DefaultArea)
    /\ provider \in StartProviders
    /\ ai_client = provider
    /\ db \in SavedDbs
    /\ messages_per_provider = LoadedHistories(db)
    /\ input_buffer = <<>>
    /\ scroll_offset = 0
    /\ is_streaming = FALSE
    /\ show_help = FALSE
    /\ responses = <<>>
    /\ tasks = {}
    /\ requests = 0

\* the number of messages in the conversations of ps
RECURSIVE SumLen(_, _)
SumLen(m, ps) ==
    IF ps = {} THEN 0
    ELSE LET p == CHOOSE x \in ps : TRUE IN Len(m[p]) + SumLen(m, ps \ {p})

\* room for one more message (the bound of the model)
HasRoom == SumLen(messages_per_provider, Providers) < MaxMessages

\* get_current_messages
get_current_messages == messages_per_provider[provider]

\* handle_key, Ctrl+L: the current provider's conversation and saved rows go
KeyCtrlL ==
    /\ messages_per_provider' = [messages_per_provider EXCEPT ![provider] = <<>>]
    /\ scroll_offset' = 0
    /\ db' = clear_history(db, provider)
    /\ UNCHANGED <<pipelineVars, provider, ai_client, input_buffer, is_streaming, show_help,
                   responses, tasks, requests>>

\* handle_key, F1
KeyF1 ==
    /\ show_help' = ~show_help
    /\ UNCHANGED <<pipelineVars, provider, ai_client, messages_per_provider, input_buffer,
                   scroll_offset, is_streaming, responses, tasks, requests, db>>

\* handle_key, F2: pending responses are drained, the next provider is selected
\* and told so by a system message in its own conversation
KeyF2 ==
    /\ HasRoom
    /\ responses' = <<>>
    /\ is_streaming' = FALSE
    /\ provider' = NextProvider(provider)
    /\ ai_client' = provider'
    /\ scroll_offset' = 0
    /\ messages_per_provider' =
         add_system_message(messages_per_provider, provider', SwitchedTo(provider'))
    /\ UNCHANGED <<pipelineVars, input_buffer, show_help, tasks, requests, db>>

\* handle_key, a character
KeyChar ==
    /\ Len(input_buffer) < MaxInput
    /\ \E c \in Chars : input_buffer' = Append(input_buffer, c)
    /\ UNCHANGED <<pipelineVars, provider, ai_client, messages_per_provider, scroll_offset,
                   is_streaming, show_help, responses, tasks, requests, db>>

\* handle_key, Backspace
KeyBackspace ==
    /\ input_buffer' = IF input_buffer = <<>> THEN <<>>
                       ELSE SubSeq(input_buffer, 1, Len(input_buffer) - 1)
    /\ UNCHANGED <<pipelineVars, provider, ai_client, messages_per_provider, scroll_offset,
                   is_streaming, show_help, responses, tasks, requests, db>>

\* handle_key, Enter, with send_message: the text joins the conversation and the
\* database, and a task is spawned that asks ai_client
KeyEnter ==
    IF input_buffer # <<>> /\ ~is_streaming
    THEN /\ HasRoom
         /\ requests < MaxRequests
         /\ input_buffer' = <<>>
         /\ messages_per_provider' =
              [messages_per_provider EXCEPT ![provider] = Append(@, UserMessage(input_buffer))]
         /\ db' = save_message(db, provider, "user", input_buffer)
         /\ is_streaming' = TRUE
         /\ tasks' = tasks \cup {[to |-> ai_client, id |-> requests + 1]}
         /\ requests' = requests + 1
         /\ UNCHANGED <<pipelineVars, provider, ai_client, scroll_offset, show_help, responses>>
    ELSE UNCHANGED vars

\* handle_key, Up
KeyUp ==
    /\ scroll_offset' = saturating_sub(scroll_offset, 1)
    /\ UNCHANGED <<pipelineVars, provider, ai_client, messages_per_provider, input_buffer,
                   is_streaming, show_help, responses, tasks, requests, db>>

\* handle_key, Down
KeyDown ==
    /\ scroll_offset' =
         IF scroll_offset < saturating_sub(Len(get_current_messages), 1)
         THEN scroll_offset + 1 ELSE scroll_offset
    /\ UNCHANGED <<pipelineVars, provider, ai_client, messages_per_provider, input_buffer,
                   is_streaming, show_help, responses, tasks, requests, db>>

\* handle_key, PageUp
KeyPageUp ==
    /\ scroll_offset' = saturating_sub(scroll_offset, PageStep)
    /\ UNCHANGED <<pipelineVars, provider, ai_client, messages_per_provider, input_buffer,
                   is_streaming, show_help, responses, tasks, requests, db>>

\* handle_key, PageDown
KeyPageDown ==
    /\ scroll_offset' =
         Min(scroll_offset + PageStep, saturating_sub(Len(get_current_messages), 1))
    /\ UNCHANGED <<pipelineVars, provider, ai_client, messages_per_provider, input_buffer,
                   is_streaming, show_help, responses, tasks, requests, db>>

\* handle_key, any other key (with or without Ctrl)
KeyOther == UNCHANGED vars

\* a task spawned by send_message gets its result, Ok or Err, and sends it
TaskComplete ==
    \E t \in tasks, ok \in BOOLEAN :
        /\ tasks' = tasks \ {t}
        /\ responses' = Append(responses, [ok |-> ok, to |-> t.to])
        /\ UNCHANGED <<pipelineVars, provider, ai_client, messages_per_provider, input_buffer,
                       scroll_offset, is_streaming, show_help, requests, db>>

\* ChatInterface::update: at most one result is taken; a response joins the
\* database and the conversation of the provider selected now
ChatUpdate ==
    IF responses = <<>> THEN UNCHANGED vars
    ELSE /\ HasRoom
         /\ responses' = Tail(responses)
         /\ is_streaming' = FALSE
         /\ IF Head(responses).ok
            THEN /\ db' = save_message(db, provider, "assistant",
                                       ResponseOf(Head(responses).to))
                 /\ messages_per_provider' =
                      [messages_per_provider EXCEPT ![provider] =
                          Append(@, AssistantMessage(ResponseOf(Head(responses).to)))]
                 /\ scroll_offset' = saturating_sub(Len(messages_per_provider'[provider]), 1)
            ELSE /\ messages_per_provider' =
                      add_system_message(messages_per_provider, provider,
                                         ErrorOf(Head(responses).to))
                 /\ UNCHANGED <<db, scroll_offset>>
         /\ UNCHANGED <<pipelineVars, provider, ai_client, input_buffer, show_help, tasks,
                        requests>>

ChatNext ==
    \/ KeyCtrlL \/ KeyF1 \/ KeyF2 \/ KeyChar \/ KeyBackspace \/ KeyEnter
    \/ KeyUp \/ KeyDown \/ KeyPageUp \/ KeyPageDown \/ KeyOther
    \/ TaskComplete \/ ChatUpdate

ChatSpec == ChatInit /\ [][ChatNext]_vars

-----------------------------------------------------------------------------
(* Claims about the chat, checked under ChatSpec *)

\* C17: a step that selects another provider (F2) leaves every message of every
\* conversation in place and unaltered (it may only add after them), and leaves
\* the saved rows alone; a step that empties a conversation (Ctrl+L) empties only
\* that of the selected provider and leaves the others, and their saved rows, as
\* they were
C17_HistoryPreserved ==
    [][/\ provider' # provider =>
            /\ \A p \in Providers :
                IsPrefix(messages_per_provider[p], messages_per_provider'[p])
            /\ db' = db
       /\ \A p \in Providers :
            Len(messages_per_provider'[p]) < Len(messages_per_provider[p]) =>
                /\ p = provider
                /\ provider' = provider
                /\ \A q \in Providers \ {p} :
                    /\ messages_per_provider'[q] = messages_per_provider[q]
                    /\ db'.rows[q] = db.rows[q]
    ]_vars

\* the user wrote to one provider, cycled through the three others and is back:
\* the message is still the conversation's first
C17_Witness ==
    /\ provider = "Claude"
    /\ Len(messages_per_provider["Claude"]) = 2
    /\ messages_per_provider["Claude"][1] = UserMessage(<<"a">>)
    /\ messages_per_provider["Claude"][2].content = <<"tool">> \o SwitchedTo("Claude")

--------------------------------------------------------------------------------
(* Claims about the loop boundary, checked under Spec *)

\* C18 as stated: whatever the worker is using, none of it was built before the
\* last seek (the whole session is built anew on every restart)
C18_SessionRebuiltInFull == kept = {}

\* C18: a restart that goes on seeks the container it already has to the start,
\* keeps the rescaler, and replaces the decoder alone by a newly built one; so
\* the decoder a packet is about to be submitted to has never been sent
\* end-of-stream
C18_DecoderRebuilt ==
    /\ [](wpc = "packet" => ~dec.eof)
    /\ [][(wpc = "restart" /\ wpc' = "packet") =>
            /\ dec.eof
            /\ dec' = NewDecoder
            /\ pos' = 0
            /\ kept' = {"container", "rescaler"}
       ]_vars

\* after a restart the worker has submitted a packet of the next pass to the new
\* decoder, through the container and the rescaler of the pass before
C18_Witness ==
    /\ kept = {"container", "rescaler"}
    /\ wpc = "recv_s"
    /\ pos = 1
    /\ ~dec.eof
    /\ Len(published) > 0

\* the frames of one pass over file p, in decoding order
RECURSIVE PassOrder(_)
PassOrder(p) ==
    IF p = <<>> THEN <<>>
    ELSE LET before == PassOrder(SubSeq(p, 1, Len(p) - 1))
         IN  IF Last(p) = VideoIdx THEN Append(before, Len(p)) ELSE before

\* h is a run of whole passes over file p: every frame of every pass, in order
WholePasses(h, p) ==
    LET one == PassOrder(p)
    IN  /\ Len(h) % Len(one) = 0
        /\ \A i \in 1..Len(h) : h[i] = one[((i - 1) % Len(one)) + 1]

\* C19 as stated: the decoder has been sent end-of-stream only with every packet
\* of the pass submitted, and whenever the worker is about to seek back to the
\* start, the decoder is empty and what was published so far is whole passes:
\* every frame of each pass, in order, none missing at the boundary
C19_FlushingOrder ==
    /\ dec.eof => pos >= Len(packets)
    /\ wpc = "restart" =>
        /\ dec.buf = <<>>
        /\ WholePasses(published, packets)

\* the same, for the passes in which no send failed and no receive_frame error
\* was passed over
C19_FlushingOrderUndisturbed ==
    (~sendFailed /\ swallowed = {}) => C19_FlushingOrder

\* the worker is about to seek although the frame it flushed out of the decoder
\* went to a channel whose receiver is gone
C19_SeeksAfterLostFrame ==
    /\ wpc = "restart"
    /\ sendFailed
    /\ swallowed = {}
    /\ ~WholePasses(published, packets)

--------------------------------------------------------------------------------
(* Claims about endless playback, checked under PlaySpec *)

\* the outcomes of a worker that met an error of the container, the decoder or
\* the rescaler
ErrorStops ==
    {"open_error", "send_packet_error", "scale_error_s", "scale_error_f", "send_eof_error",
     "restart_error"}

\* update() is called again and again, no step of the worker fails and no
\* receive_frame error is passed over
PlaysOn ==
    /\ []<><<MainUpdate>>_vars
    /\ [](wstop \notin ErrorStops)
    /\ [](swallowed = {})

\* C20: with both threads scheduled fairly, update() called again and again and
\* no decode or seek error, the worker never stops; again and again it puts a
\* frame into the channel, again and again update() takes one out and installs
\* it, and again and again the worker reaches the end of the stream and starts
\* the next pass
C20_EndlessPlayback ==
    PlaysOn =>
        /\ [](wpc # "stopped")
        /\ []<><<Len(queue') > Len(queue)>>_vars
        /\ []<><<mpc = "update" /\ Len(queue') < Len(queue) /\ latest' = Head(queue)>>_vars
        /\ []<><<wpc = "restart" /\ wpc' = "packet">>_vars

\* the worker is in a later pass over the file and the frame on display was
\* taken out of the channel while more are queued
C20_Witness ==
    /\ ~record
    /\ kept # {}
    /\ wpc = "send_s"
    /\ latest # None
    /\ queue # <<>>
    /\ swallowed = {}
    /\ wstop = "none"

--------------------------------------------------------------------------------
(* Claims about the luminance, checked under DataSpec *)

\* round(0.299 * r + 0.587 * g + 0.114 * b), to the nearest integer, computed
\* exactly in thousandths
RoundedLuminance(r, g, b) == (299 * r + 587 * g + 114 * b + 500) \div 1000

\* C21 as stated: every cell of a published frame was chosen by the rounded
\* luminance of its pixel: the luminance the code computes is
\* round(0.299 * r + 0.587 * g + 0.114 * b), and the cell's character is
\* palette[floor(luminance * (P - 1) / 255)]
C21_LuminanceRounded ==
    \A i \in 1..Len(published) :
        LET af == AsciiFrameOf(published[i])
        IN  \A k \in 1..Len(af.cells) :
                LET px == PixelOfCell(published[i], k)
                    y  == RoundedLuminance(px[1], px[2], px[3])
                IN  /\ luminance(px[1], px[2], px[3]) = y
                    /\ af.cells[k][1] = PALETTE[PaletteIndex(y) + 1]

\* a published frame has a cell whose character is not the one the rounded
\* luminance of its pixel selects
C21_OtherCharacter ==
    \E i \in 1..Len(published) :
        LET af == AsciiFrameOf(published[i])
        IN  \E k \in 1..Len(af.cells) :
                LET px == PixelOfCell(published[i], k)
                IN  af.cells[k][1]
                        # PALETTE[PaletteIndex(RoundedLuminance(px[1], px[2], px[3])) + 1]

--------------------------------------------------------------------------------
(* Claims about responses and scrolling, checked under ChatSpec *)

\* the requests whose task has not yet sent its result
Outstanding == Cardinality(tasks)

\* C22 as stated: every response in a conversation, and every response saved,
\* is the response to a request that was sent to the provider of that
\* conversation, whatever the order of Enter, F2 and the arrival of responses;
\* and at most one request is outstanding at any time
C22_ResponseAttribution ==
    /\ \A p \in Providers :
        /\ \A i \in 1..Len(messages_per_provider[p]) :
            LET m == messages_per_provider[p][i]
            IN  (m.role = "Assistant" /\ ~m.is_system) => m.content = ResponseOf(p)
        /\ \A i \in 1..Len(db.rows[p]) :
            db.rows[p][i].role = "assistant" => db.rows[p][i].content = ResponseOf(p)
    /\ Outstanding <= 1

\* C23: whatever keys were pressed and however often update() ran,
\* scroll_offset is at most max(0, len - 1), len being the number of messages in
\* the conversation of the provider selected now
C23_ScrollBound ==
    LET len == Len(messages_per_provider[provider])
    IN  /\ scroll_offset >= 0
        /\ scroll_offset <= (IF len > 0 THEN len - 1 ELSE 0)

\* after F2 the user sent a message and scrolled down to it, the last of the
\* conversation, before any response was received
C23_Witness ==
    /\ Len(messages_per_provider[provider]) = 2
    /\ messages_per_provider[provider][1].is_system
    /\ messages_per_provider[provider][2].role = "User"
    /\ scroll_offset = 1
    /\ is_streaming
    /\ responses = <<>>

====
